---- MODULE Spec2Model ----
(***************************************************************************)
(* Model of scripts/transaction_generator.py: the record generator         *)
(* (generer_montant, generer_user_id, generer_transaction) and the batch   *)
(* assembler (generer_batch_transactions).                                 *)
(*                                                                         *)
(* Strings are sequences of one-character strings, so that formatting,     *)
(* comparison of formatted text and parsing are computed, not assumed.     *)
(* An instant of the system clock is [sec, ms]: whole seconds since        *)
(* 1970-01-01 00:00:00 and the milliseconds within the second.  The local  *)
(* time zone is UTC+0 (Dakar), so datetime.now() and time.time() read the  *)
(* same civil time.                                                        *)
(***************************************************************************)
EXTENDS Integers, Sequences, FiniteSets, Bags, TLC

VARIABLES
    cfg,            \* module-level tables VILLES, TRANSACTION_TYPES, OPERATEURS, MONTANT_RANGES
    clock,          \* the system clock
    pc,             \* "start" | "loop" | "done" | "error"
    n_transactions, \* argument of generer_batch_transactions
    base_date,      \* local of generer_batch_transactions (line 114)
    i,              \* loop counter of line 116
    transactions,   \* the list built by the loop
    df,             \* the returned DataFrame, as the sequence of its rows
    printed,        \* the progress lines printed: [count, appended]
    stream,         \* the draws the generators seeded with 42 yield, as far as a run has revealed them
    returned,       \* what each generer_transaction call of this run returned
    id_source,      \* the clock reading and suffix each transaction_id of this run was built from
    error,          \* the exception that ended the run, or "none"
    prev            \* input and output of the sort of the previous run of the program

vars == <<cfg, clock, pc, n_transactions, base_date, i, transactions, df, printed,
          stream, returned, id_source, error, prev>>

----------------------------------------------------------------------------
(* Bounds of the exploration *)

\* batches of up to MaxN records are explored with every draw and every clock advance
MaxN == 2

----------------------------------------------------------------------------
(* Text *)

Digits == <<"0", "1", "2", "3", "4", "5", "6", "7", "8", "9">>

DigitChar(d) == Digits[d + 1]

\* str(int): decimal digits without padding
RECURSIVE Decimal(_)
Decimal(v) == IF v < 10 THEN <<DigitChar(v)>> ELSE Decimal(v \div 10) \o <<DigitChar(v % 10)>>

\* zero-padded fields of strftime
Pad2(v) == <<DigitChar((v \div 10) % 10), DigitChar(v % 10)>>

Pad3(v) == <<DigitChar((v \div 100) % 10)>> \o Pad2(v)

Pad4(v) == <<DigitChar((v \div 1000) % 10)>> \o Pad3(v)

\* code point of the characters a timestamp is made of
Ord(c) ==
    CASE c = " " -> 32
      [] c = "-" -> 45
      [] c = ":" -> 58
      [] OTHER -> 48 + (CHOOSE d \in 0..9 : Digits[d + 1] = c)

\* Python's str < str: the first differing character decides, a proper prefix is smaller
RECURSIVE StrLess(_, _)
StrLess(a, b) ==
    IF b = <<>> THEN FALSE
    ELSE IF a = <<>> THEN TRUE
    ELSE IF Head(a) = Head(b) THEN StrLess(Tail(a), Tail(b))
    ELSE Ord(Head(a)) < Ord(Head(b))

StrLeq(a, b) == ~StrLess(b, a)

----------------------------------------------------------------------------
(* datetime *)

SecPerHour == 3600

SecPerDay == 86400

\* proleptic Gregorian date of a day number counted from 1970-01-01
CivilFromDays(days) ==
    LET z == days + 719468
        era == z \div 146097
        doe == z - era * 146097
        yoe == (doe - doe \div 1460 + doe \div 36524 - doe \div 146096) \div 365
        doy == doe - (365 * yoe + yoe \div 4 - yoe \div 100)
        mp == (5 * doy + 2) \div 153
        d == doy - (153 * mp + 2) \div 5 + 1
        m == IF mp < 10 THEN mp + 3 ELSE mp - 9
        y == yoe + era * 400 + (IF m <= 2 THEN 1 ELSE 0)
    IN  [year |-> y, month |-> m, day |-> d]

\* datetime.strftime('%Y-%m-%d %H:%M:%S'): the sub-second part is dropped
strftime(t) ==
    LET date == CivilFromDays(t.sec \div SecPerDay)
        sod == t.sec % SecPerDay
    IN  Pad4(date.year) \o <<"-">> \o Pad2(date.month) \o <<"-">> \o Pad2(date.day)
        \o <<" ">> \o Pad2(sod \div SecPerHour) \o <<":">> \o Pad2((sod % SecPerHour) \div 60)
        \o <<":">> \o Pad2(sod % 60)

\* datetime + timedelta(hours=h), datetime - timedelta(days=d); the first is
\* timedelta(days=h)
PlusHoursAsDays(t, h) == [sec |-> t.sec + h * SecPerDay, ms |-> t.ms]

PlusHours(t, h) == [sec |-> t.sec + h * SecPerHour, ms |-> t.ms]

MinusDays(t, d) == [sec |-> t.sec - d * SecPerDay, ms |-> t.ms]

\* the clock after d more milliseconds
Advance(t, d) == [sec |-> t.sec + (t.ms + d) \div 1000, ms |-> (t.ms + d) % 1000]

----------------------------------------------------------------------------
(* Configuration (lines 28-45) *)

VILLES == <<"Dakar", "Thies", "Saint-Louis", "Kaolack", "Ziguinchor">>

\* the dict in insertion order; probabilities in hundredths
TRANSACTION_TYPES ==
    <<[type |-> "transfer", p |-> 45], [type |-> "payment", p |-> 30],
      [type |-> "withdrawal", p |-> 20], [type |-> "deposit", p |-> 5]>>

OPERATEURS == <<"Orange Money", "Wave", "Free Money", "Wizall">>

MONTANT_RANGES ==
    [t \in {"transfer", "payment", "withdrawal", "deposit"} |->
        CASE t = "transfer" -> <<1000, 100000>>
          [] t = "payment" -> <<500, 50000>>
          [] t = "withdrawal" -> <<5000, 200000>>
          [] t = "deposit" -> <<10000, 500000>>]

\* the tables as the module defines them
ModuleConfig ==
    [VILLES |-> VILLES, TRANSACTION_TYPES |-> TRANSACTION_TYPES,
     OPERATEURS |-> OPERATEURS, MONTANT_RANGES |-> MONTANT_RANGES]

\* the malformed tables of the error taxonomy, each differing from the module's in one table
MalformedConfigs ==
    { [ModuleConfig EXCEPT !.TRANSACTION_TYPES[4].p = 10],
      [ModuleConfig EXCEPT !.TRANSACTION_TYPES = <<>>],
      [ModuleConfig EXCEPT !.VILLES = <<>>],
      [ModuleConfig EXCEPT !.OPERATEURS = <<>>],
      [ModuleConfig EXCEPT !.MONTANT_RANGES["transfer"] = <<100000, 1000>>] }

RECURSIVE SumP(_)
SumP(types) == IF types = <<>> THEN 0 ELSE Head(types).p + SumP(Tail(types))

WeightsSumToOne(c) == SumP(c.TRANSACTION_TYPES) = 100

RangeInverted(c) ==
    \E t \in DOMAIN c.MONTANT_RANGES : c.MONTANT_RANGES[t][1] > c.MONTANT_RANGES[t][2]

Malformed(c) ==
    \/ ~WeightsSumToOne(c)
    \/ c.TRANSACTION_TYPES = <<>>
    \/ c.VILLES = <<>>
    \/ c.OPERATEURS = <<>>
    \/ RangeInverted(c)

----------------------------------------------------------------------------
(* Random draws.  A draw is what one pass of the loop body takes from the two  *)
(* seeded generators: u (hundredths, the uniform variate of np.random.choice), *)
(* montant (tenths, the log-normal variate), and the integers random.choice    *)
(* and random.randint reduce to their ranges.                                  *)

Max(a, b) == IF a >= b THEN a ELSE b

Min(a, b) == IF a <= b THEN a ELSE b

\* round(x, 0) of a float given in tenths: to the nearest whole unit, halves to even
Round(tenths) ==
    LET q == tenths \div 10
        r == tenths % 10
    IN  IF r < 5 THEN q
        ELSE IF r > 5 THEN q + 1
        ELSE IF q % 2 = 0 THEN q ELSE q + 1

\* np.random.choice(a, p=p): the first type whose cumulative weight exceeds u
RECURSIVE np_random_choice(_, _)
np_random_choice(types, u) ==
    IF Len(types) = 1 \/ u < Head(types).p THEN Head(types).type
    ELSE np_random_choice(Tail(types), u - Head(types).p)

\* random.choice(seq): seq[_randbelow(len(seq))]
random_choice(seq, k) == seq[(k % Len(seq)) + 1]

\* random.randint(a, b)
random_randint(a, b, k) == a + (k % (b - a + 1))

\* lines 51-59, on the log-normal draw of line 55; the first omits min(max_val, ...)
generer_montant_floor(transaction_type, montant) ==
    LET min_val == cfg.MONTANT_RANGES[transaction_type][1]
    IN  Max(min_val, Round(montant))

generer_montant(transaction_type, montant) ==
    LET min_val == cfg.MONTANT_RANGES[transaction_type][1]
        max_val == cfg.MONTANT_RANGES[transaction_type][2]
    IN  Max(min_val, Min(max_val, Round(montant)))

generer_user_id(k_prefix, k_numero) ==
    LET prefixes == << <<"7", "7">>, <<"7", "8">>, <<"7", "6">>, <<"7", "0">>, <<"7", "5">> >>
        prefix == random_choice(prefixes, k_prefix)
        numero == random_randint(1000000, 9999999, k_numero)
    IN  <<"u", "s", "e", "r", "_">> \o prefix \o Decimal(numero)

\* f"TXN{int(time.time()*1000)}_{random.randint(1000,9999)}"; the first leaves the suffix out
transaction_id_nosuffix(t, suffix) ==
    <<"T", "X", "N">> \o Decimal(t.sec) \o Pad3(t.ms)

transaction_id(t, suffix) ==
    <<"T", "X", "N">> \o Decimal(t.sec) \o Pad3(t.ms) \o <<"_">> \o Decimal(suffix)

\* lines 68-100; t_now is datetime.now() of line 89, t_id is time.time() of line 92
generer_transaction(draw, t_now, t_id) ==
    LET trans_type == np_random_choice(cfg.TRANSACTION_TYPES, draw.u)
        amount == generer_montant(trans_type, draw.montant)
        city == random_choice(cfg.VILLES, draw.city)
        operator == random_choice(cfg.OPERATEURS, draw.operator)
        user_id == generer_user_id(draw.prefix, draw.numero)
    IN  [transaction_id |-> transaction_id(t_id, random_randint(1000, 9999, draw.suffix)),
         timestamp |-> strftime(t_now),
         user_id |-> user_id,
         amount |-> amount,
         city |-> city,
         transaction_type |-> trans_type,
         operator |-> operator,
         status |-> "completed"]

----------------------------------------------------------------------------
(* The values explored *)

\* the seven days of line 114 and the 7*24 hours of line 124
LookbackDays == 7

LookbackHours == 7 * 24

\* line 117
ProgressEvery == 200

\* one uniform variate inside each type's share of [0, 100)
UDraws == <<10, 50, 80, 97>>

\* the other integers of a pass: city, operator, prefix, numero, suffix, offset_hours
Shapes ==
    <<[city |-> 0, operator |-> 0, prefix |-> 0, numero |-> 0, suffix |-> 0, offset_hours |-> 0],
      [city |-> 4, operator |-> 3, prefix |-> 4, numero |-> 8999999, suffix |-> 8999,
       offset_hours |-> LookbackHours],
      [city |-> 1, operator |-> 1, prefix |-> 2, numero |-> 234567, suffix |-> 0,
       offset_hours |-> 1]>>

\* log-normal variates (tenths) for the range <<min_val, max_val>>: far below the range,
\* far above it, and the half above the median exp(mean) = min_val + (max_val - min_val)/3
MontantDraws(range) ==
    LET median == 10 * range[1] + (10 * (range[2] - range[1])) \div 3
        whole == 10 * (median \div 10)
    IN  <<1, 200 * Max(range[1], range[2]),
          whole + 5>>

NProfiles == Len(UDraws) * 3

\* the p-th draw explored: each type with each variate, the shapes in rotation
Profile(p) ==
    LET u == UDraws[((p - 1) % 4) + 1]
        type == np_random_choice(cfg.TRANSACTION_TYPES, u)
        shape == Shapes[((p - 1) % 3) + 1]
    IN  [u |-> u,
         montant |-> MontantDraws(cfg.MONTANT_RANGES[type])[((p - 1) \div 4) + 1],
         city |-> shape.city, operator |-> shape.operator, prefix |-> shape.prefix,
         numero |-> shape.numero, suffix |-> shape.suffix,
         offset_hours |-> shape.offset_hours]

\* milliseconds the clock may advance between two passes of the loop
ClockAdvances == {0, 1}

\* the clock when the process starts: 2027-01-03 23:59:59.999 (the window spans a
\* year's end) and 2028-03-03 12:00:00.000 (the window spans 29 February)
StartClocks == { [sec |-> 1799020799, ms |-> 999], [sec |-> 1835697600, ms |-> 0] }

\* what pass k of the loop may draw: what the seed already yielded in an earlier run of
\* the program, else any profile; batches longer than MaxN follow one stream
Draws(k) ==
    IF k < Len(stream) THEN {stream[k + 1]}
    ELSE IF n_transactions > MaxN THEN {Profile((k % NProfiles) + 1)}
    ELSE {Profile(p) : p \in 1..NProfiles}

Advances == IF n_transactions > MaxN THEN {1} ELSE ClockAdvances

----------------------------------------------------------------------------
(* DataFrame.sort_values('timestamp').reset_index(drop=True), line 136.  The     *)
(* default kind is 'quicksort', which pandas documents as not stable: rows with  *)
(* equal keys come out in an order the call does not promise.                    *)

IsPermutation(perm, len) == \A a, b \in 1..len : perm[a] = perm[b] => a = b

\* the rows ordered by key, rows of equal key by their place in tie: row k comes behind
\* the rows of smaller key and the rows of equal key that tie puts first
SortBy(rows, tie) ==
    LET len == Len(rows)
        rank == [k \in 1..len |->
                    1 + Cardinality({j \in 1..len :
                            \/ StrLess(rows[j].timestamp, rows[k].timestamp)
                            \/ rows[j].timestamp = rows[k].timestamp /\ tie[j] < tie[k]})] \o <<>>
    IN  [pos \in 1..len |-> rows[CHOOSE k \in 1..len : rank[k] = pos]]

\* the sort that keeps rows of equal key in their order
StableSort(rows) == SortBy(rows, [k \in 1..Len(rows) |-> k])

\* the orders in which the sort may leave rows of equal key: any, for a batch of up to
\* MaxN rows; for a longer one the two extremes, as appended and reversed
TieOrders(len) ==
    IF len <= MaxN
    THEN {f \in [1..len -> 1..len] : IsPermutation(f, len)}
    ELSE {[k \in 1..len |-> k], [k \in 1..len |-> len + 1 - k]}

\* variants: ascending=False, a drop_duplicates('timestamp'), no sort at all
sort_values_descending(rows) ==
    {[k \in 1..Len(rows) |-> StableSort(rows)[Len(rows) + 1 - k]]}

sort_values_drop_duplicates(rows) ==
    LET out == StableSort(rows)
        kept == {k \in 1..Len(out) : k = 1 \/ out[k].timestamp # out[k - 1].timestamp}
    IN  {[j \in 1..Cardinality(kept) |->
            out[CHOOSE k \in kept : Cardinality({m \in kept : m <= k}) = j]]}

sort_values_unsorted(rows) == {rows}

sort_values(rows) == {SortBy(rows, tie) : tie \in TieOrders(Len(rows))}

----------------------------------------------------------------------------
(* The program *)

NoRun == [input |-> <<>>, output |-> <<>>, runs |-> 0]

InitRun ==
    /\ pc = "start"
    /\ base_date = [sec |-> 0, ms |-> 0]
    /\ i = 0
    /\ transactions = <<>>
    /\ df = <<>>
    /\ printed = <<>>
    /\ returned = <<>>
    /\ id_source = <<>>
    /\ error = "none"

\* the script as written, called with a small n_transactions
Init ==
    /\ InitRun
    /\ cfg = ModuleConfig
    /\ clock \in StartClocks
    /\ n_transactions \in 0..MaxN
    /\ stream = <<>>
    /\ prev = NoRun

\* lines 106-114
Start ==
    /\ pc = "start"
    /\ base_date' = MinusDays(clock, LookbackDays)
    /\ pc' = "loop"
    /\ UNCHANGED <<cfg, clock, n_transactions, i, transactions, df, printed, stream,
                   returned, id_source, error, prev>>

\* line 117-118: the line printed in pass k (0-based), if any
Progress(k) ==
    IF (k + 1) % ProgressEvery = 0
    THEN Append(printed, [count |-> k + 1, appended |-> Len(transactions)])
    ELSE printed

\* what np.random.choice (line 71) and random.choice (lines 80, 83) raise
Raises(c) ==
    IF c.TRANSACTION_TYPES = <<>> \/ ~WeightsSumToOne(c) THEN "ValueError"
    ELSE IF c.VILLES = <<>> \/ c.OPERATEURS = <<>> THEN "IndexError"
    ELSE "none"

\* lines 124-126; the first leaves out the assignment of line 126
Backdate_placeholder(trans, offset_hours) == trans

Backdate(trans, offset_hours) ==
    [trans EXCEPT !.timestamp = strftime(PlusHours(base_date, offset_hours))]

\* one pass of the loop, lines 116-128.  The clock advances d ms since the last pass;
\* datetime.now() of line 89 and time.time() of line 92 read it within the same call
Iterate ==
    /\ pc = "loop"
    /\ i < n_transactions
    /\ Raises(cfg) = "none"
    /\ \E draw \in Draws(i), d \in Advances :
          LET now == Advance(clock, d)
              trans == generer_transaction(draw, now, now)
              offset_hours == random_randint(0, LookbackHours, draw.offset_hours)
          IN  /\ clock' = now
              /\ printed' = Progress(i)
              /\ returned' = Append(returned, trans)
              /\ id_source' = Append(id_source,
                     [sec |-> now.sec, ms |-> now.ms,
                      suffix |-> random_randint(1000, 9999, draw.suffix)])
              /\ transactions' = Append(transactions, Backdate(trans, offset_hours))
              /\ stream' = IF i < Len(stream) THEN stream ELSE Append(stream, draw)
    /\ i' = i + 1
    /\ UNCHANGED <<cfg, pc, n_transactions, base_date, df, error, prev>>

\* lines 130-138
Finish ==
    /\ pc = "loop"
    /\ i = n_transactions
    /\ \E out \in sort_values(transactions) :
          /\ (prev.runs > 0 /\ prev.input = transactions) => out = prev.output
          /\ df' = out
    /\ pc' = "done"
    /\ UNCHANGED <<cfg, clock, n_transactions, base_date, i, transactions, printed, stream,
                   returned, id_source, error, prev>>

Next == Start \/ Iterate \/ Finish

Spec == Init /\ [][Next]_vars

\* line 71, 80 or 83 raises: the loop and the program end with the exception
RaiseConfigError ==
    /\ pc = "loop"
    /\ i < n_transactions
    /\ Raises(cfg) # "none"
    /\ printed' = Progress(i)
    /\ error' = Raises(cfg)
    /\ pc' = "error"
    /\ UNCHANGED <<cfg, clock, n_transactions, base_date, i, transactions, df, stream,
                   returned, id_source, prev>>

\* the script with its tables as written or malformed, called for at least one record
InitCfg ==
    /\ InitRun
    /\ cfg \in {ModuleConfig} \cup MalformedConfigs
    /\ clock \in StartClocks
    /\ n_transactions \in 1..MaxN
    /\ stream = <<>>
    /\ prev = NoRun

NextCfg == Next \/ RaiseConfigError

SpecCfg == InitCfg /\ [][NextCfg]_vars

\* time between the end of one run of the program and the start of the next
RestartGaps == {0, 1, 1000 * SecPerHour}

\* the program is run again: lines 21-22 seed both generators with 42 again, so the
\* passes of the new process draw what the passes of the first drew
Restart ==
    /\ pc = "done"
    /\ prev.runs = 0
    /\ prev' = [input |-> transactions, output |-> df, runs |-> 1]
    /\ \E gap \in RestartGaps : clock' = Advance(clock, gap)
    /\ pc' = "start"
    /\ base_date' = [sec |-> 0, ms |-> 0]
    /\ i' = 0
    /\ transactions' = <<>>
    /\ df' = <<>>
    /\ printed' = <<>>
    /\ returned' = <<>>
    /\ id_source' = <<>>
    /\ UNCHANGED <<cfg, n_transactions, stream, error>>

NextTwice == Next \/ Restart

SpecTwice == Init /\ [][NextTwice]_vars

\* the script called with batches long enough for progress lines
InitProgress ==
    /\ InitRun
    /\ cfg = ModuleConfig
    /\ clock \in StartClocks
    /\ n_transactions \in
          {ProgressEvery - 1, ProgressEvery, ProgressEvery + 1, 2 * ProgressEvery}
    /\ stream = <<>>
    /\ prev = NoRun

SpecProgress == InitProgress /\ [][Next]_vars

----------------------------------------------------------------------------
(* Reading a timestamp back *)

DigitValue(c) == CHOOSE d \in 0..9 : Digits[d + 1] = c

RECURSIVE Number(_)
Number(text) ==
    IF text = <<>> THEN 0
    ELSE 10 * Number(SubSeq(text, 1, Len(text) - 1)) + DigitValue(text[Len(text)])

\* day number, counted from 1970-01-01, of a proleptic Gregorian date
DaysFromCivil(year, month, day) ==
    LET y == IF month <= 2 THEN year - 1 ELSE year
        era == y \div 400
        yoe == y - era * 400
        doy == (153 * (IF month > 2 THEN month - 3 ELSE month + 9) + 2) \div 5 + day - 1
        doe == yoe * 365 + yoe \div 4 - yoe \div 100 + doy
    IN  era * 146097 + doe - 719468

\* the second a 'YYYY-MM-DD HH:MM:SS' text names
Seconds(text) ==
    DaysFromCivil(Number(SubSeq(text, 1, 4)), Number(SubSeq(text, 6, 7)),
                  Number(SubSeq(text, 9, 10))) * SecPerDay
    + Number(SubSeq(text, 12, 13)) * SecPerHour + Number(SubSeq(text, 15, 16)) * 60
    + Number(SubSeq(text, 18, 19))

\* instant a is not later than instant b
NotLater(a, b) == a.sec < b.sec \/ (a.sec = b.sec /\ a.ms <= b.ms)

Rows(seq) == {seq[k] : k \in 1..Len(seq)}

\* how often each row occurs in seq
Occurrences(seq) == [r \in Rows(seq) |-> Cardinality({k \in 1..Len(seq) : seq[k] = r})]

\* the offset pass k of the loop drew
OffsetOf(k) == random_randint(0, LookbackHours, stream[k].offset_hours)

----------------------------------------------------------------------------
(* C1: every amount lies within the [min, max] range of its transaction type, *)
(* inclusive, whatever the log-normal draw was, in the list under             *)
(* construction and in the returned dataset.                                  *)

InRange(row) ==
    /\ cfg.MONTANT_RANGES[row.transaction_type][1] <= row.amount
    /\ row.amount <= cfg.MONTANT_RANGES[row.transaction_type][2]

C1_AmountInRange ==
    /\ \A k \in 1..Len(returned) : InRange(returned[k])
    /\ \A k \in 1..Len(transactions) : InRange(transactions[k])
    /\ \A k \in 1..Len(df) : InRange(df[k])

\* a dataset holding an amount clamped up from a draw far below the range and one
\* clamped down from a draw far above it
C1_Witness ==
    /\ pc = "done"
    /\ \E a, b \in 1..Len(returned) :
          /\ stream[a].montant < 10 * cfg.MONTANT_RANGES[returned[a].transaction_type][1]
          /\ returned[a].amount = cfg.MONTANT_RANGES[returned[a].transaction_type][1]
          /\ stream[b].montant > 10 * cfg.MONTANT_RANGES[returned[b].transaction_type][2]
          /\ returned[b].amount = cfg.MONTANT_RANGES[returned[b].transaction_type][2]
          /\ returned[a].amount \in {r.amount : r \in Rows(df)}
          /\ returned[b].amount \in {r.amount : r \in Rows(df)}

(* C2: the returned dataset is sorted by timestamp ascending, as text and in  *)
(* time: each row's timestamp is neither greater as a string nor later as an  *)
(* instant than the next row's.                                               *)
C2_SortedChronologically ==
    pc = "done" =>
        \A k \in 1..(Len(df) - 1) :
            /\ StrLeq(df[k].timestamp, df[k + 1].timestamp)
            /\ Seconds(df[k].timestamp) <= Seconds(df[k + 1].timestamp)

\* a dataset whose rows were generated latest first, in different years
C2_Witness ==
    /\ pc = "done"
    /\ Len(df) >= 2
    /\ StrLess(transactions[2].timestamp, transactions[1].timestamp)
    /\ SubSeq(df[1].timestamp, 1, 4) # SubSeq(df[Len(df)].timestamp, 1, 4)

(* C3 as stated: every timestamp of the dataset, read as an instant, lies      *)
(* within [window_start, window_start + 7 days], window_start being base_date. *)
C3_WithinWindow ==
    pc = "done" =>
        \A k \in 1..Len(df) :
            /\ NotLater(base_date, [sec |-> Seconds(df[k].timestamp), ms |-> 0])
            /\ NotLater([sec |-> Seconds(df[k].timestamp), ms |-> 0],
                        [sec |-> base_date.sec + LookbackDays * SecPerDay,
                         ms |-> base_date.ms])

(* C3 as amended: every timestamp of the dataset is window_start plus a whole  *)
(* number of hours from 0 to 168 with the fraction of the second dropped, so   *)
(* it lies within [window_start cut to the whole second, window_start + 7      *)
(* days] and may precede window_start by less than a second.                   *)
C3_WithinTruncatedWindow ==
    pc = "done" =>
        \A k \in 1..Len(df) :
            LET second == Seconds(df[k].timestamp)
            IN  /\ base_date.sec <= second
                /\ NotLater([sec |-> second, ms |-> 0],
                            [sec |-> base_date.sec + LookbackDays * SecPerDay,
                             ms |-> base_date.ms])
                /\ (second - base_date.sec) % SecPerHour = 0
                /\ (second - base_date.sec) \div SecPerHour \in 0..LookbackHours

\* a dataset with a row at offset 0 and a row at offset 168, the window having started
\* inside a second
C3_Witness ==
    /\ pc = "done"
    /\ base_date.ms > 0
    /\ \E a, b \in 1..Len(df) :
          /\ Seconds(df[a].timestamp) = base_date.sec
          /\ Seconds(df[b].timestamp) = base_date.sec + LookbackHours * SecPerHour

(* C4: a second run of the program, seeded like the first and with the same    *)
(* tables and count, returns the dataset the first run returned.               *)
C4_Deterministic == (pc = "done" /\ prev.runs = 1) => df = prev.output

C6_Stable == pc = "done" => df = StableSort(transactions)

(* C6 as amended: the returned dataset is the stable sort of the appended      *)
(* records up to the order of rows of equal timestamp: it has the timestamps   *)
(* of the stable sort position by position, and the same rows.                 *)
C6_StableUpToTies ==
    pc = "done" =>
        LET stable == StableSort(transactions)
        IN  /\ Len(df) = Len(transactions)
            /\ \A k \in 1..Len(df) : df[k].timestamp = stable[k].timestamp
            /\ Occurrences(df) = Occurrences(stable)

\* a dataset in which two rows of equal timestamp changed places
C6_Witness ==
    /\ pc = "done"
    /\ df # StableSort(transactions)
    /\ \E k \in 1..(Len(df) - 1) : df[k].timestamp = df[k + 1].timestamp

(* C7: with malformed tables the run ends in an error before any record is     *)
(* generated.                                                                  *)
C7_FailFast ==
    Malformed(cfg) => (returned = <<>> /\ transactions = <<>> /\ pc # "done")

(* C8 as stated: no two rows of the returned dataset carry the same            *)
(* transaction_id.                                                             *)
C8_Unique ==
    pc = "done" =>
        \A a, b \in 1..Len(df) : a # b => df[a].transaction_id # df[b].transaction_id

(* C8 as amended: two records carry the same transaction_id exactly when they  *)
(* were generated at the same millisecond reading of the clock with the same   *)
(* random suffix; the dataset holds as many ids as there were such pairs.      *)
C8_UniquePerReadingAndSuffix ==
    /\ \A a, b \in 1..Len(transactions) :
          transactions[a].transaction_id = transactions[b].transaction_id
              <=> id_source[a] = id_source[b]
    /\ pc = "done" =>
          Cardinality({r.transaction_id : r \in Rows(df)}) = Cardinality(Rows(id_source))

\* a dataset with two rows of one id
C8_Witness ==
    /\ pc = "done"
    /\ \E a, b \in 1..Len(df) : a # b /\ df[a].transaction_id = df[b].transaction_id

(* C9: the assembler changes the timestamp of a generated record and nothing   *)
(* else: each appended record is the record the generator returned with its    *)
(* timestamp set to base_date plus the drawn offset, its status 'completed',   *)
(* and the dataset holds these records.                                        *)
Assembled(k) ==
    [transaction_id |-> returned[k].transaction_id,
     timestamp |-> strftime([sec |-> base_date.sec + OffsetOf(k) * SecPerHour,
                             ms |-> base_date.ms]),
     user_id |-> returned[k].user_id,
     amount |-> returned[k].amount,
     city |-> returned[k].city,
     transaction_type |-> returned[k].transaction_type,
     operator |-> returned[k].operator,
     status |-> "completed"]

C9_OnlyTimestampChanges ==
    /\ Len(transactions) = Len(returned)
    /\ \A k \in 1..Len(transactions) : transactions[k] = Assembled(k)
    /\ pc = "done" =>
          Occurrences(df) = Occurrences([k \in 1..Len(returned) |-> Assembled(k)])

\* a dataset of reordered rows, each with a timestamp other than the generator's
C9_Witness ==
    /\ pc = "done"
    /\ Len(df) >= 2
    /\ df # transactions
    /\ \A k \in 1..Len(returned) : returned[k].timestamp # transactions[k].timestamp

(* C10: a progress line is printed once per 200 records, naming 200, 400, ..., *)
(* each when as many records as it names have been appended; a finished batch  *)
(* printed floor(n/200) lines.                                                 *)
C10_ProgressAfterAppend ==
    /\ \A k \in 1..Len(printed) :
          /\ printed[k].count = k * ProgressEvery
          /\ printed[k].appended = printed[k].count
    /\ pc = "done" => Len(printed) = n_transactions \div ProgressEvery

====
